---- MODULE Spec2Model ----
(***************************************************************************)
(* Model of cc-finder (src/src/index.ts): main with its two paths, the      *)
(* reader readCasNumbersFromCsv, the concurrent lookup pipeline            *)
(* processInParallel / getCompoundByCas / fetchWithRetry and the write of  *)
(* the result file by processChemicals.                                    *)
(*                                                                         *)
(* JavaScript runs one handler at a time: the code between two awaits is   *)
(* one atomic step.  A worker is suspended only in `await fetch(url)`,     *)
(* in the backoff `await new Promise(setTimeout)` and in                   *)
(* `await response.json()`; each action below is the whole continuation    *)
(* that runs when one of these awaits settles, up to the next await.       *)
(***************************************************************************)
EXTENDS Integers, Sequences, FiniteSets, TLC

\* ---------------------------------------------------------------- bounds
MaxItems == 3
MaxConcurrency == 2
\* longest list whose requests are logged event by event
MaxLoggedItems == 1
\* longest stem of a command-line argument, in characters
MaxStemLen == 3
\* most data rows of an input file given to the reader
MaxRows == 2

\* ------------------------------------------------------------ JS values
\* null / undefined of an optional value; a present value v is <<v>>.
Null == <<>>
Some(v) == <<v>>
\* an array slot never assigned (new Array(n))
Hole == [hole |-> TRUE]

Min(a, b) == IF a < b THEN a ELSE b

\* `a || b` on strings: the empty string is falsy
OrStr(a, b) == IF a # "" THEN a ELSE b

\* ------------------------------------------------------- the environment
\* The identifiers read from the input file: the rows of a catalogue taken in
\* order, so that neighbours differ and a long list repeats an identifier.
Catalogue == <<"50-00-0", "64-17-5", "67-56-1">>
CatalogueItem(k) == Catalogue[((k - 1) % Len(Catalogue)) + 1]
ItemLists == {[k \in 1..n |-> CatalogueItem(k)] : n \in 0..MaxItems}
ConcurrencyValues == 1..MaxConcurrency

\* HTTP statuses the upstream may answer with
Statuses == {200, 404, 429, 500, 503}
StatusText(status) ==
    CASE status = 200 -> "OK"
      [] status = 404 -> "Not Found"
      [] status = 429 -> "Too Many Requests"
      [] status = 500 -> "Internal Server Error"
      [] status = 503 -> "Service Unavailable"
      [] OTHER -> ""

\* message of the TypeError a rejected fetch() carries
NetworkErrorMessage == "fetch failed"
\* message of the SyntaxError a rejected response.json() carries
JsonErrorMessage == "Unexpected token < in JSON at position 0"

\* searchData.IdentifierList?.CID?.[0] of a parsed body: undefined, 0 or a CID
SearchCids == {Null, Some(0), Some(712)}

\* propsData.PropertyTable?.Properties?.[0] of a parsed body: undefined or a
\* record; an absent optional field and an empty one are both falsy and are
\* both written "".
PropsRecords ==
    { [Title |-> "Formaldehyde", IUPACName |-> "formaldehyde",
       MolecularFormula |-> "CH2O", CanonicalSMILES |-> "C=O",
       ConnectivitySMILES |-> ""],
      [Title |-> "", IUPACName |-> "", MolecularFormula |-> "",
       CanonicalSMILES |-> "", ConnectivitySMILES |-> "C=O"] }
PropsBodies == {Null} \cup {Some(p) : p \in PropsRecords}

\* An upstream that answers each request as a function of the request: the
\* search URL is made of the identifier, the properties URL of the cid.  An
\* answer is the status of the response (0: fetch rejects) and its body:
\* Null when it is not JSON, else Some(v) with v the value the code reads from
\* it (the cid, or the property record; Null when the body has none).
Answer(status, body) == [status |-> status, body |-> body]
SearchAnswers ==
    { Answer(0, Null), Answer(503, Null), Answer(200, Some(Null)),
      Answer(200, Some(Some(712))) }
PropsAnswers ==
    { Answer(404, Null), Answer(200, Null) }
        \cup { Answer(200, Some(Some(p))) : p \in PropsRecords }
FixedUpstreams(list) ==
    { Some([search |-> s, props |-> g]) :
          s \in [{list[k] : k \in 1..Len(list)} -> SearchAnswers],
          g \in [{712} -> PropsAnswers] }

\* ------------------------------------------------------- fetchWithRetry
retries == 3
delay == 1000

ResponseOk(status) == status >= 200 /\ status <= 299

\* faulty variant: a 404 is retried like a rate limit
IsRateLimitedOrNotFound(status) == status = 503 \/ status = 429 \/ status = 404
\* faulty variant: every 5xx is retried
IsRateLimitedOrServerError(status) == status = 429 \/ status >= 500
IsRateLimited(status) == status = 503 \/ status = 429

\* faulty variant: the same delay after every attempt
BackoffDelayFlat(i) == delay
BackoffDelay(i) == delay * (i + 1)

HttpErrorMessage(status) ==
    "HTTP " \o ToString(status) \o ": " \o StatusText(status)

\* One pass of the loop body after `await fetch(url)` answered `status`, with
\* loop variable i: return the response, sleep and continue, or throw.
FetchStep(i, status) ==
    IF ResponseOk(status)
    THEN [kind |-> "return", ms |-> 0, message |-> ""]
    ELSE IF IsRateLimited(status)
    THEN [kind |-> "sleep", ms |-> BackoffDelay(i), message |-> ""]
    ELSE IF status = 404
    THEN [kind |-> "throw", ms |-> 0, message |-> "Compound not found in PubChem"]
    ELSE [kind |-> "throw", ms |-> 0, message |-> HttpErrorMessage(status)]

\* faulty variant: the loop test lets a fourth attempt through
LoopContinuesOnceMore(i) == i < retries
\* faulty variant: the budget counts retries after the first attempt short by one
LoopContinuesOnceLess(i) == i + 2 < retries
\* `continue`: i++ and the loop test i < retries
LoopContinues(i) == i + 1 < retries

\* ----------------------------------------------------- getCompoundByCas
\* what getCompoundByCas's promise settles with
Returned(data, error) == [kind |-> "return", data |-> data, error |-> error]
Thrown(message) == [kind |-> "throw", data |-> Null, error |-> Some(message)]

\* faulty variant: the catch block rethrows
CatchErrorRethrows(message) == Thrown(message)
\* the catch block: an Error thrown inside the try becomes a failed result
CatchError(message) == Returned(Null, Some(message))

\* faulty variant: the message of the other early return
NoCompoundOtherMessage ==
    Returned(Null, Some("Could not retrieve compound properties"))
NoCompound == Returned(Null, Some("No compound found for this CAS number"))
\* faulty variant: an empty record is returned along with the error
NoPropertiesWithData ==
    Returned(Some([chemical_name |-> "", smiles_code |-> "",
                   molecular_formula |-> "", structure_image_url |-> ""]),
             Some("Could not retrieve compound properties"))
NoProperties == Returned(Null, Some("Could not retrieve compound properties"))

\* faulty variant: only an absent cid is tested (cid === undefined)
CidMissingOnlyUndefined(cid) == cid = Null
\* `!cid`
CidMissing(cid) == cid = Null \/ cid = Some(0)

StructureImageUrl(cid) ==
    "=IMAGE(\"https://pubchem.ncbi.nlm.nih.gov/rest/pug/compound/cid/"
        \o ToString(cid) \o "/PNG\")"

ChemicalData(props, cid) ==
    [chemical_name |-> OrStr(props.Title, OrStr(props.IUPACName, "")),
     smiles_code |-> OrStr(props.CanonicalSMILES, OrStr(props.ConnectivitySMILES, "")),
     molecular_formula |-> OrStr(props.MolecularFormula, ""),
     structure_image_url |-> StructureImageUrl(cid)]

Found(props, cid) == Returned(Some(ChemicalData(props, cid)), Null)

\* ----------------------------------------- processChemicals' processor
\* `error || "Unknown error"`
ErrorOrUnknown(error) ==
    IF error = Null \/ error = Some("") THEN "Unknown error" ELSE error[1]

Processor(casNumber, res) ==
    IF res.data # Null
    THEN [cas_number |-> casNumber,
          chemical_name |-> res.data[1].chemical_name,
          smiles_code |-> res.data[1].smiles_code,
          molecular_formula |-> res.data[1].molecular_formula,
          structure_image_url |-> res.data[1].structure_image_url,
          status |-> "success"]
    ELSE [cas_number |-> casNumber,
          chemical_name |-> "",
          smiles_code |-> "",
          molecular_formula |-> "",
          structure_image_url |-> "",
          status |-> "failed",
          error |-> ErrorOrUnknown(res.error)]

\* ---------------------------------------------------- writeResultsToCsv
Columns == <<"cas_number", "chemical_name", "smiles_code", "molecular_formula",
             "structure_image_url", "status", "error">>

\* csv-stringify writes an absent or undefined column as the empty field
CsvField(row, col) == IF col \in DOMAIN row THEN row[col] ELSE ""
CsvLine(row) == [c \in 1..Len(Columns) |-> CsvField(row, Columns[c])]
\* header line, then one line per element of results in array order
CsvContent(res, n) ==
    [l \in 1..(n + 1) |-> IF l = 1 THEN Columns ELSE CsvLine(res[l - 2])]

\* ------------------------------------------------- readCasNumbersFromCsv
\* An input file that csv-parse accepts is its header, a set of column names,
\* and its data rows, each giving a raw cell to every column of the header;
\* a file it refuses (or that cannot be read) is Unreadable.
Unreadable == [malformed |-> TRUE, header |-> {}, rows |-> <<>>]
CsvFile(header, rows) == [malformed |-> FALSE, header |-> header, rows |-> rows]

\* String.prototype.trim and csv-parse's `trim: true` on the cells in use
Trim(cell) ==
    CASE cell = " " -> ""
      [] cell = " 64-17-5 " -> "64-17-5"
      [] OTHER -> cell

\* parse(fileContent, {columns: true, skip_empty_lines: true, trim: true}):
\* one record per data row, keyed by the header, every cell trimmed
Parse(file) ==
    [r \in 1..Len(file.rows) |-> [c \in file.header |-> Trim(file.rows[r][c])]]

\* record[col]: undefined (Null) when the record has no such key
Field(record, col) == IF col \in DOMAIN record THEN Some(record[col]) ELSE Null
\* undefined and "" are falsy
Truthy(v) == v # Null /\ v # Some("")
\* `a || b`
Or(a, b) == IF Truthy(a) THEN a ELSE b

\* faulty variant: the chain starts with record.CAS
CasNumberOfCasFirst(record) ==
    Or(Field(record, "CAS"),
       Or(Field(record, "cas_number"),
          Or(Field(record, "cas"), Field(record, "CAS Number"))))
\* record.cas_number || record.CAS || record.cas || record["CAS Number"]
CasNumberOf(record) ==
    Or(Field(record, "cas_number"),
       Or(Field(record, "CAS"),
          Or(Field(record, "cas"), Field(record, "CAS Number"))))

\* the loop over records: push casNumber.trim() when casNumber is truthy
RECURSIVE PushCasNumbers(_, _)
PushCasNumbers(records, casNumbers) ==
    IF records = <<>>
    THEN casNumbers
    ELSE LET casNumber == CasNumberOf(Head(records)) IN
         PushCasNumbers(Tail(records),
                        IF Truthy(casNumber)
                        THEN Append(casNumbers, Trim(casNumber[1]))
                        ELSE casNumbers)
readCasNumbersFromCsv(file) == PushCasNumbers(Parse(file), <<>>)

\* ------------------------------------------------------------------ main
CONCURRENCY_LIMIT == 5

\* A path is a sequence of characters.
Cwd == <<"/", "w">>
ResultsSuffix == <<"_", "r", "e", "s", "u", "l", "t", "s", ".", "c", "s", "v">>
CsvSuffix == <<".", "c", "s", "v">>

\* path.resolve(p) on POSIX: p taken from the working directory unless it is
\* absolute, then normalised: empty and "." segments dropped, ".." removing
\* the segment before it, no trailing slash
RECURSIVE SplitPath(_, _, _)
SplitPath(p, k, segment) ==
    IF k > Len(p) THEN <<segment>>
    ELSE IF p[k] = "/" THEN <<segment>> \o SplitPath(p, k + 1, <<>>)
    ELSE SplitPath(p, k + 1, Append(segment, p[k]))
RECURSIVE NormalizeSegments(_, _)
NormalizeSegments(segments, kept) ==
    IF segments = <<>> THEN kept
    ELSE LET segment == Head(segments) IN
         NormalizeSegments(
             Tail(segments),
             IF segment = <<>> \/ segment = <<".">> THEN kept
             ELSE IF segment = <<".", ".">>
             THEN (IF kept = <<>> THEN kept ELSE SubSeq(kept, 1, Len(kept) - 1))
             ELSE Append(kept, segment))
RECURSIVE JoinPath(_)
JoinPath(segments) ==
    IF segments = <<>> THEN <<>>
    ELSE <<"/">> \o Head(segments) \o JoinPath(Tail(segments))
PathResolve(p) ==
    LET absolute == IF p # <<>> /\ p[1] = "/" THEN p ELSE Cwd \o <<"/">> \o p
        kept == NormalizeSegments(SplitPath(absolute, 1, <<>>), <<>>)
    IN IF kept = <<>> THEN <<"/">> ELSE JoinPath(kept)

\* the `i` flag of /\.csv$/i
ToLower(c) ==
    CASE c = "C" -> "c" [] c = "S" -> "s" [] c = "V" -> "v" [] OTHER -> c
\* /\.csv$/i matches p
EndsWithCsv(p) ==
    /\ Len(p) >= Len(CsvSuffix)
    /\ [k \in 1..Len(CsvSuffix) |-> ToLower(p[Len(p) - Len(CsvSuffix) + k])] = CsvSuffix
\* inputPath.replace(/\.csv$/i, "_results.csv")
ReplaceCsvSuffix(p) ==
    IF EndsWithCsv(p)
    THEN SubSeq(p, 1, Len(p) - Len(CsvSuffix)) \o ResultsSuffix
    ELSE p
\* args[1] ? path.resolve(args[1]) : inputPath.replace(...)
OutputPathOf(a, input) ==
    IF Len(a) >= 2 /\ a[2] # <<>> THEN PathResolve(a[2]) ELSE ReplaceCsvSuffix(input)

\* faulty variant: args.length < 2
HasInputPathAndOutputPath(a) == Len(a) >= 2
\* !(args.length < 1)
HasInputPath(a) == Len(a) >= 1
\* fs.existsSync(inputPath)
ExistsSync(file) == file # Null

\* ------------------------------------------------------ processInParallel
\* faulty variant: one worker per item, whatever the concurrency
WorkerCountPerItem(c, n) == n
WorkerCount(c, n) == Min(c, n)
Workers == 1..MaxConcurrency

\* faulty variant: the cursor is read but not advanced
AdvanceCursorStuck(cur) == cur
\* `currentIndex++`: the value claimed and the value left in the cursor
ClaimedIndex(cur) == cur
AdvanceCursor(cur) == cur + 1
\* faulty variant: the loop test admits index n
HasWorkInclusive(cur, n) == cur <= n
\* the loop test of worker()
HasWork(cur, n) == cur < n

VARIABLES
    items,          \* casNumbers, the array handed to processInParallel
    upstream,       \* Null, or the fixed answer the upstream gives to each request
    args,           \* process.argv.slice(2), each argument a sequence of characters
    inputPath,      \* main's inputPath, <<>> before it is computed
    outputPath,     \* main's outputPath, <<>> before it is computed
    inputFile,      \* the file at inputPath: Null when there is none
    concurrency,    \* processInParallel's concurrency argument
    phase,          \* where processChemicals stands
    spawned,        \* number of worker() calls made by the map
    currentIndex,   \* the shared cursor
    results,        \* results[0..n-1], Hole where nothing was stored
    wpc,            \* per worker: the await it is suspended in
    widx,           \* per worker: its local `index`
    wreq,           \* per worker: the request of getCompoundByCas in progress
    wi,             \* per worker: fetchWithRetry's loop variable i
    wcid,           \* per worker: cid of getCompoundByCas
    wtimer,         \* per worker: milliseconds of the pending setTimeout
    wattempts,      \* per worker: fetch(url) calls made by the current fetchWithRetry
    claims,         \* per index: number of times a worker took it
    stores,         \* per index: number of assignments results[index] = ...
    lookup,         \* per index: what getCompoundByCas(items[index]) settled with
    output,         \* content of the output file, Null when not written
    writes,         \* number of fs.writeFileSync calls that completed
    exitCode,       \* process exit code, -1 while running
    observe,        \* whether the HTTP traffic is recorded in log
    log             \* per index: the fetch calls, responses and timers of its lookup

\* main's own state
cli == <<args, inputPath, outputPath, inputFile>>

vars == <<items, upstream, cli, concurrency, phase, spawned, currentIndex, results, wpc, widx,
          wreq, wi, wcid, wtimer, wattempts, claims, stores, lookup, output,
          writes, exitCode, observe, log>>

wvars == <<wpc, widx, wreq, wi, wcid, wtimer, wattempts>>

N == Len(items)
Indices == 0..(N - 1)

\* State at the call processInParallel(casNumbers, processor, concurrency)
InitWith(lists, pools, obs) ==
    /\ items \in lists
    /\ concurrency \in pools
    /\ phase = "spawning"
    /\ spawned = 0
    /\ currentIndex = 0
    /\ results = [i \in Indices |-> Hole]
    /\ wpc = [w \in Workers |-> "unborn"]
    /\ widx = [w \in Workers |-> 0]
    /\ wreq = [w \in Workers |-> "none"]
    /\ wi = [w \in Workers |-> 0]
    /\ wcid = [w \in Workers |-> 0]
    /\ wtimer = [w \in Workers |-> 0]
    /\ wattempts = [w \in Workers |-> 0]
    /\ claims = [i \in Indices |-> 0]
    /\ stores = [i \in Indices |-> 0]
    /\ lookup = [i \in Indices |-> Null]
    /\ output = Null
    /\ writes = 0
    /\ exitCode = -1
    /\ observe = obs
    /\ log = [i \in Indices |-> <<>>]

\* processInParallel called on its own: main's variables are not in use
Detached == args = <<>> /\ inputPath = <<>> /\ outputPath = <<>> /\ inputFile = Null

Init == InitWith(ItemLists, ConcurrencyValues, FALSE) /\ upstream = Null /\ Detached

\* ------------------------------------------------------------- the log
\* events of one lookup, in the order the code produces them
FetchCalled(req, i) == <<req, "fetch", i>>          \* fetch(url) with loop variable i
Responded(req, status) == <<req, "response", status>>
Rejected(req) == <<req, "reject", 0>>               \* fetch(url) rejected
TimerSet(req, ms) == <<req, "sleep", ms>>           \* setTimeout(resolve, ms)
Parsed(req, found) == <<req, "parsed", found>>      \* json() resolved; cid or 1, 0 if absent
Unparsed(req) == <<req, "unparsed", 0>>             \* json() rejected

Logged(lg, index, events) ==
    IF observe /\ index \in DOMAIN lg
    THEN [lg EXCEPT ![index] = @ \o events]
    ELSE lg

\* ------------------------------------------------------------- actions
\* the answer a fixed upstream gives to the request worker w is waiting for
AnswerOf(w) ==
    IF wreq[w] = "search"
    THEN upstream[1].search[items[widx[w] + 1]]
    ELSE upstream[1].props[wcid[w]]
\* a response with this status (0: a rejection) may arrive for worker w
MayAnswer(w, status) == IF upstream = Null THEN TRUE ELSE AnswerOf(w).status = status
\* the body of worker w's response may be this one (Null: not JSON)
MayCarry(w, body) == IF upstream = Null THEN TRUE ELSE AnswerOf(w).body = body

ActiveWorkers == 1..WorkerCount(concurrency, N)

\* The body of worker() from the loop test to the next suspension: either the
\* cursor is claimed and the lookup of the claimed item runs synchronously
\* up to `await fetch(searchUrl)` in fetchWithRetry, or the worker returns.
\* lg is the log with the events of the handler so far.
WorkerLoop(w, lg) ==
    IF HasWork(currentIndex, N)
    THEN LET index == ClaimedIndex(currentIndex) IN
         /\ currentIndex' = AdvanceCursor(currentIndex)
         /\ claims' = [claims EXCEPT ![index] = @ + 1]
         /\ wpc' = [wpc EXCEPT ![w] = "fetch"]
         /\ widx' = [widx EXCEPT ![w] = index]
         /\ wreq' = [wreq EXCEPT ![w] = "search"]
         /\ wi' = [wi EXCEPT ![w] = 0]
         /\ wcid' = [wcid EXCEPT ![w] = 0]
         /\ wtimer' = [wtimer EXCEPT ![w] = 0]
         /\ wattempts' = [wattempts EXCEPT ![w] = 1]
         /\ log' = Logged(lg, index, <<FetchCalled("search", 0)>>)
    ELSE /\ wpc' = [wpc EXCEPT ![w] = "done"]
         /\ wreq' = [wreq EXCEPT ![w] = "none"]
         /\ wi' = [wi EXCEPT ![w] = 0]
         /\ wcid' = [wcid EXCEPT ![w] = 0]
         /\ wtimer' = [wtimer EXCEPT ![w] = 0]
         /\ wattempts' = [wattempts EXCEPT ![w] = 0]
         /\ log' = lg
         /\ UNCHANGED <<currentIndex, claims, widx>>

\* faulty variant: the row is appended in completion order (results.push)
SettleInCompletionOrder(w, res, lg) ==
    LET slot == CHOOSE i \in Indices :
                    /\ results[i] = Hole
                    /\ \A j \in Indices : j < i => results[j] # Hole
    IN
    /\ lookup' = [lookup EXCEPT ![widx[w]] = Some(res)]
    /\ results' = [results EXCEPT ![slot] = Processor(items[widx[w] + 1], res)]
    /\ stores' = [stores EXCEPT ![slot] = @ + 1]
    /\ WorkerLoop(w, lg)
    /\ UNCHANGED <<phase, exitCode>>

\* getCompoundByCas of worker w settled with res.  A returned value goes
\* through the processor into results[index] and the worker loops; a
\* rejection would reject the worker, Promise.all, processInParallel,
\* processChemicals and main, whose catch exits with code 1.
Settle(w, res, lg) ==
    /\ lookup' = [lookup EXCEPT ![widx[w]] = Some(res)]
    /\ IF res.kind = "return"
       THEN /\ results' = [results EXCEPT ![widx[w]] = Processor(items[widx[w] + 1], res)]
            /\ stores' = [stores EXCEPT ![widx[w]] = @ + 1]
            /\ WorkerLoop(w, lg)
            /\ UNCHANGED <<phase, exitCode>>
       ELSE /\ wpc' = [wpc EXCEPT ![w] = "rejected"]
            /\ phase' = "fatal"
            /\ exitCode' = 1
            /\ log' = lg
            /\ UNCHANGED <<results, stores, currentIndex, claims, widx, wreq, wi,
                           wcid, wtimer, wattempts>>

\* One worker() call of `Array(...).fill(null).map(() => worker())`.  The map
\* is synchronous: no response is handled before the last worker is created.
SpawnWorker(w) ==
    /\ phase = "spawning"
    /\ w = spawned + 1
    /\ w \in ActiveWorkers
    /\ spawned' = w
    /\ WorkerLoop(w, log)
    /\ UNCHANGED <<items, upstream, cli, concurrency, phase, results, stores, lookup, output,
                   writes, exitCode, observe>>

\* `await Promise.all(workers)` is reached
AwaitWorkers ==
    /\ phase = "spawning"
    /\ spawned = WorkerCount(concurrency, N)
    /\ phase' = "joining"
    /\ UNCHANGED <<items, upstream, cli, concurrency, spawned, currentIndex, results, wvars,
                   claims, stores, lookup, output, writes, exitCode, observe, log>>

\* `await fetch(url)` of worker w resolves with a response
FetchResponse(w, status) ==
    /\ phase = "joining"
    /\ wpc[w] = "fetch"
    /\ MayAnswer(w, status)
    /\ LET step == FetchStep(wi[w], status)
           lg == Logged(log, widx[w], <<Responded(wreq[w], status)>>)
       IN
       CASE step.kind = "return" ->
              /\ wpc' = [wpc EXCEPT ![w] = "json"]
              /\ log' = lg
              /\ UNCHANGED <<phase, currentIndex, results, widx, wreq, wi, wcid,
                             wtimer, wattempts, claims, stores, lookup, exitCode>>
         [] step.kind = "sleep" ->
              /\ wpc' = [wpc EXCEPT ![w] = "sleep"]
              /\ wtimer' = [wtimer EXCEPT ![w] = step.ms]
              /\ log' = Logged(lg, widx[w], <<TimerSet(wreq[w], step.ms)>>)
              /\ UNCHANGED <<phase, currentIndex, results, widx, wreq, wi, wcid,
                             wattempts, claims, stores, lookup, exitCode>>
         [] OTHER -> Settle(w, CatchError(step.message), lg)
    /\ UNCHANGED <<items, upstream, cli, concurrency, spawned, output, writes, observe>>

\* `await fetch(url)` of worker w rejects (DNS, connection, TLS failure)
FetchRejected(w) ==
    /\ phase = "joining"
    /\ wpc[w] = "fetch"
    /\ MayAnswer(w, 0)
    /\ Settle(w, CatchError(NetworkErrorMessage),
              Logged(log, widx[w], <<Rejected(wreq[w])>>))
    /\ UNCHANGED <<items, upstream, cli, concurrency, spawned, output, writes, observe>>

\* the backoff timer of worker w fires: `continue`, then the loop test
TimerFired(w) ==
    /\ phase = "joining"
    /\ wpc[w] = "sleep"
    /\ IF LoopContinues(wi[w])
       THEN /\ wpc' = [wpc EXCEPT ![w] = "fetch"]
            /\ wi' = [wi EXCEPT ![w] = @ + 1]
            /\ wattempts' = [wattempts EXCEPT ![w] = @ + 1]
            /\ wtimer' = [wtimer EXCEPT ![w] = 0]
            /\ log' = Logged(log, widx[w], <<FetchCalled(wreq[w], wi[w] + 1)>>)
            /\ UNCHANGED <<phase, currentIndex, results, widx, wreq, wcid,
                           claims, stores, lookup, exitCode>>
       ELSE Settle(w, CatchError("Max retries exceeded"), log)
    /\ UNCHANGED <<items, upstream, cli, concurrency, spawned, output, writes, observe>>

\* faulty variant: the properties request goes on with the loop variable and
\* the attempt count of the search request (one budget per identifier)
SearchParsedSharedBudget(w, cid) ==
    /\ phase = "joining"
    /\ wpc[w] = "json"
    /\ wreq[w] = "search"
    /\ MayCarry(w, Some(cid))
    /\ IF CidMissing(cid)
       THEN Settle(w, NoCompound, Logged(log, widx[w], <<Parsed("search", 0)>>))
       ELSE /\ wpc' = [wpc EXCEPT ![w] = "fetch"]
            /\ wreq' = [wreq EXCEPT ![w] = "props"]
            /\ wcid' = [wcid EXCEPT ![w] = cid[1]]
            /\ wattempts' = [wattempts EXCEPT ![w] = @ + 1]
            /\ log' = Logged(log, widx[w],
                             <<Parsed("search", cid[1]), FetchCalled("props", wi[w])>>)
            /\ UNCHANGED <<phase, currentIndex, results, widx, wi, wtimer,
                           claims, stores, lookup, exitCode>>
    /\ UNCHANGED <<items, upstream, cli, concurrency, spawned, output, writes, observe>>

\* `await searchResponse.json()` resolves; cid is IdentifierList?.CID?.[0]
SearchParsed(w, cid) ==
    /\ phase = "joining"
    /\ wpc[w] = "json"
    /\ wreq[w] = "search"
    /\ MayCarry(w, Some(cid))
    /\ IF CidMissing(cid)
       THEN Settle(w, NoCompound, Logged(log, widx[w], <<Parsed("search", 0)>>))
       ELSE /\ wpc' = [wpc EXCEPT ![w] = "fetch"]
            /\ wreq' = [wreq EXCEPT ![w] = "props"]
            /\ wcid' = [wcid EXCEPT ![w] = cid[1]]
            /\ wi' = [wi EXCEPT ![w] = 0]
            /\ wattempts' = [wattempts EXCEPT ![w] = 1]
            /\ log' = Logged(log, widx[w],
                             <<Parsed("search", cid[1]), FetchCalled("props", 0)>>)
            /\ UNCHANGED <<phase, currentIndex, results, widx, wtimer,
                           claims, stores, lookup, exitCode>>
    /\ UNCHANGED <<items, upstream, cli, concurrency, spawned, output, writes, observe>>

\* `await propsResponse.json()` resolves; props is PropertyTable?.Properties?.[0]
PropsParsed(w, props) ==
    /\ phase = "joining"
    /\ wpc[w] = "json"
    /\ wreq[w] = "props"
    /\ MayCarry(w, Some(props))
    /\ IF props = Null
       THEN Settle(w, NoProperties, Logged(log, widx[w], <<Parsed("props", 0)>>))
       ELSE Settle(w, Found(props[1], wcid[w]),
                   Logged(log, widx[w], <<Parsed("props", 1)>>))
    /\ UNCHANGED <<items, upstream, cli, concurrency, spawned, output, writes, observe>>

\* `await response.json()` rejects: the body is not JSON
JsonRejected(w) ==
    /\ phase = "joining"
    /\ wpc[w] = "json"
    /\ MayCarry(w, Null)
    /\ Settle(w, CatchError(JsonErrorMessage),
              Logged(log, widx[w], <<Unparsed(wreq[w])>>))
    /\ UNCHANGED <<items, upstream, cli, concurrency, spawned, output, writes, observe>>

\* faulty variant: the join settles with the first worker (Promise.race)
AnyWorkerDone == \E w \in ActiveWorkers : wpc[w] = "done"
\* faulty variant: the join waits for `concurrency` workers, started or not
WholePoolDone == \A w \in 1..concurrency : wpc[w] = "done"
AllWorkersDone == \A w \in ActiveWorkers : wpc[w] = "done"

\* Promise.all resolves, processInParallel returns results and
\* processChemicals calls writeResultsToCsv; main returns, exit code 0.
WriteResults ==
    /\ phase = "joining"
    /\ AllWorkersDone
    /\ output' = Some(CsvContent(results, N))
    /\ writes' = writes + 1
    /\ phase' = "written"
    /\ exitCode' = 0
    /\ UNCHANGED <<items, upstream, cli, concurrency, spawned, currentIndex, results, wvars,
                   claims, stores, lookup, observe, log>>

\* fs.writeFileSync throws (unwritable destination): main().catch exits 1
WriteFails ==
    /\ phase = "joining"
    /\ AllWorkersDone
    /\ phase' = "fatal"
    /\ exitCode' = 1
    /\ UNCHANGED <<items, upstream, cli, concurrency, spawned, currentIndex, results, wvars,
                   claims, stores, lookup, output, writes, observe, log>>

\* ------------------------------------------------------ actions of main
\* no argument: the usage text, process.exit(1)
MainUsage ==
    /\ phase = "start"
    /\ ~HasInputPath(args)
    /\ phase' = "usage"
    /\ exitCode' = 1
    /\ UNCHANGED <<items, upstream, cli, concurrency, spawned, currentIndex,
                   results, wvars, claims, stores, lookup, output, writes,
                   observe, log>>

\* inputPath and outputPath are computed
MainResolve ==
    /\ phase = "start"
    /\ HasInputPath(args)
    /\ inputPath' = PathResolve(args[1])
    /\ outputPath' = OutputPathOf(args, PathResolve(args[1]))
    /\ phase' = "resolved"
    /\ UNCHANGED <<items, upstream, args, inputFile, concurrency, spawned,
                   currentIndex, results, wvars, claims, stores, lookup, output,
                   writes, exitCode, observe, log>>

\* !fs.existsSync(inputPath): process.exit(1)
MainNotFound ==
    /\ phase = "resolved"
    /\ ~ExistsSync(inputFile)
    /\ phase' = "notfound"
    /\ exitCode' = 1
    /\ UNCHANGED <<items, upstream, cli, concurrency, spawned, currentIndex,
                   results, wvars, claims, stores, lookup, output, writes,
                   observe, log>>

\* processChemicals reads the identifiers and calls processInParallel
ReadInput ==
    /\ phase = "resolved"
    /\ ExistsSync(inputFile)
    /\ ~inputFile[1].malformed
    /\ LET casNumbers == readCasNumbersFromCsv(inputFile[1])
           indices == 0..(Len(casNumbers) - 1)
       IN
       /\ items' = casNumbers
       /\ results' = [i \in indices |-> Hole]
       /\ claims' = [i \in indices |-> 0]
       /\ stores' = [i \in indices |-> 0]
       /\ lookup' = [i \in indices |-> Null]
       /\ log' = [i \in indices |-> <<>>]
    /\ phase' = "spawning"
    /\ UNCHANGED <<upstream, cli, concurrency, spawned, currentIndex, wvars,
                   output, writes, exitCode, observe>>

\* fs.readFileSync or parse throws: main().catch exits 1
ReadFails ==
    /\ phase = "resolved"
    /\ ExistsSync(inputFile)
    /\ inputFile[1].malformed
    /\ phase' = "fatal"
    /\ exitCode' = 1
    /\ UNCHANGED <<items, upstream, cli, concurrency, spawned, currentIndex,
                   results, wvars, claims, stores, lookup, output, writes,
                   observe, log>>

Next ==
    \/ \E w \in Workers : SpawnWorker(w)
    \/ AwaitWorkers
    \/ \E w \in Workers, status \in Statuses : FetchResponse(w, status)
    \/ \E w \in Workers : FetchRejected(w)
    \/ \E w \in Workers : TimerFired(w)
    \/ \E w \in Workers, cid \in SearchCids : SearchParsed(w, cid)
    \/ \E w \in Workers, props \in PropsBodies : PropsParsed(w, props)
    \/ \E w \in Workers : JsonRejected(w)
    \/ WriteResults
    \/ WriteFails

\* the pipeline on lists of up to MaxItems identifiers
Spec == Init /\ [][Next]_vars

\* the same program on short lists, with every request's traffic logged
LoggedItemLists == {l \in ItemLists : Len(l) <= MaxLoggedItems}
\* a pool larger than the list starts no further worker
LoggedConcurrencyValues == {c \in ConcurrencyValues : c <= MaxLoggedItems}
InitLogged ==
    InitWith(LoggedItemLists, LoggedConcurrencyValues, TRUE) /\ upstream = Null /\ Detached
SpecLogged == InitLogged /\ [][Next]_vars

\* the logged lookups run one at a time (concurrency 1): what one lookup does
\* between its first fetch and its result does not involve the other workers
InitTraced == InitWith(LoggedItemLists, {1}, TRUE) /\ upstream = Null /\ Detached
SpecTraced == InitTraced /\ [][Next]_vars

\* ============================================================== claims
\* The pipeline when the event loop keeps running and every pending await
\* settles: the synchronous code goes on, every fetch(url) resolves or
\* rejects, every timer fires, every body is parsed or refused, and the
\* write returns or throws.
Answered(w) ==
    (\E status \in Statuses : FetchResponse(w, status)) \/ FetchRejected(w)
BodyRead(w) ==
    \/ \E cid \in SearchCids : SearchParsed(w, cid)
    \/ \E props \in PropsBodies : PropsParsed(w, props)
    \/ JsonRejected(w)
\* lists one shorter than MaxItems: the search for a cycle visits every state
\* once more per fairness condition
LiveItemLists == {l \in ItemLists : Len(l) < MaxItems}
InitLive == InitWith(LiveItemLists, ConcurrencyValues, FALSE) /\ upstream = Null /\ Detached
\* the pipeline against an upstream whose answers are fixed per request
FixedItemLists == {l \in ItemLists : Len(l) < MaxItems}
InitFixed ==
    /\ InitWith(FixedItemLists, ConcurrencyValues, FALSE)
    /\ upstream \in FixedUpstreams(items)
    /\ Detached
SpecFixed == InitFixed /\ [][Next]_vars

\* ------------------------------------------------- the command line
\* State at a point of main: "start" at its first statement, "resolved"
\* after the two paths are computed.
InitMain(at, argLists, files) ==
    /\ args \in argLists
    /\ inputFile \in files
    /\ inputPath = (IF at = "start" THEN <<>> ELSE PathResolve(args[1]))
    /\ outputPath = (IF at = "start" THEN <<>>
                     ELSE OutputPathOf(args, PathResolve(args[1])))
    /\ phase = at
    /\ items = <<>>
    /\ upstream = Null
    /\ concurrency = CONCURRENCY_LIMIT
    /\ spawned = 0
    /\ currentIndex = 0
    /\ results = <<>>
    /\ wpc = [w \in Workers |-> "unborn"]
    /\ widx = [w \in Workers |-> 0]
    /\ wreq = [w \in Workers |-> "none"]
    /\ wi = [w \in Workers |-> 0]
    /\ wcid = [w \in Workers |-> 0]
    /\ wtimer = [w \in Workers |-> 0]
    /\ wattempts = [w \in Workers |-> 0]
    /\ claims = <<>>
    /\ stores = <<>>
    /\ lookup = <<>>
    /\ output = Null
    /\ writes = 0
    /\ exitCode = -1
    /\ observe = FALSE
    /\ log = <<>>

\* the arguments given on the command line
\* a stem of up to MaxStemLen characters, then one of the endings: ".csv" in
\* each letter case, or an ending /\.csv$/i does not match
StemChars == {"a", ".", "/"}
Stems == UNION {[1..n -> StemChars] : n \in 0..MaxStemLen}
CsvSpellings == {<<".", c, s, v>> : c \in {"c", "C"}, s \in {"s", "S"}, v \in {"v", "V"}}
OtherEndings ==
    { <<>>, <<".", "c", "s">>, <<"c", "s", "v">>, <<".", "c", "s", "v", "x">>,
      <<".", "t", "x", "t">> }
Paths == {stem \o ending : stem \in Stems, ending \in CsvSpellings \cup OtherEndings}
InputCsv == <<"a", ".", "c", "s", "v">>
OutputArg == <<"o">>

\* main up to the two paths, on every argument list with one short input path
PathArgLists ==
    {<<>>} \cup {<<p>> : p \in Paths} \cup {<<p, q>> : p \in Paths, q \in {<<>>, OutputArg}}
InitPath == InitMain("start", PathArgLists, {Null})
NextPath == MainUsage \/ MainResolve
SpecPath == InitPath /\ [][NextPath]_vars

\* the reader on every file of up to MaxRows rows under one of six headers
RawCells(col) ==
    CASE col = "cas_number" -> {"", "50-00-0"}
      [] col = "CAS" -> {"", " 64-17-5 "}
      [] col = "cas" -> {"", "67-56-1"}
      [] col = "CAS Number" -> {"", " ", "50-00-0"}
      [] OTHER -> {"formaldehyde"}
Headers ==
    { {"cas_number", "CAS", "cas"}, {"cas_number", "CAS Number"},
      {"CAS", "CAS Number"}, {"cas", "CAS Number"}, {"name", "CAS Number"},
      {"name"} }
RowsOf(header) ==
    {row \in [header -> UNION {RawCells(c) : c \in header}] :
         \A c \in header : row[c] \in RawCells(c)}
ReaderFiles ==
    {Some(Unreadable)} \cup
    UNION { UNION { {Some(CsvFile(header, rows)) : rows \in [1..n -> RowsOf(header)]}
                    : n \in 0..MaxRows }
            : header \in Headers }
InitReader == InitMain("resolved", {<<InputCsv>>}, ReaderFiles)
NextReader == ReadInput \/ ReadFails
SpecReader == InitReader /\ [][NextReader]_vars

\* the whole program on files of catalogue rows, at most one per worker of
\* the model so that min(CONCURRENCY_LIMIT, n) workers can run
CliArgLists == {<<>>, <<InputCsv>>, <<InputCsv, OutputArg>>}
CliFiles ==
    {Null, Some(Unreadable)} \cup
    { Some(CsvFile({"cas_number"}, [k \in 1..n |-> [c \in {"cas_number"} |-> CatalogueItem(k)]]))
          : n \in 0..MaxConcurrency }
InitCli == InitMain("start", CliArgLists, CliFiles)
NextCli == MainUsage \/ MainResolve \/ MainNotFound \/ ReadInput \/ ReadFails \/ Next
SpecCli == InitCli /\ [][NextCli]_vars

SpecLive ==
    /\ InitLive
    /\ [][Next]_vars
    /\ WF_vars(\E w \in Workers : SpawnWorker(w))
    /\ WF_vars(AwaitWorkers)
    /\ \A w \in Workers : WF_vars(Answered(w))
    /\ \A w \in Workers : WF_vars(TimerFired(w))
    /\ \A w \in Workers : WF_vars(BodyRead(w))
    /\ WF_vars(WriteResults \/ WriteFails)

Busy(w) == wpc[w] \in {"fetch", "sleep", "json"}
\* processInParallel has returned: the map is over and no worker is suspended
Joined == phase # "spawning" /\ \A w \in Workers : wpc[w] \in {"unborn", "done"}
IsFailedRow(row, casNumber, message) ==
    /\ DOMAIN row = {"cas_number", "chemical_name", "smiles_code",
                     "molecular_formula", "structure_image_url", "status", "error"}
    /\ row.cas_number = casNumber
    /\ row.status = "failed"
    /\ row.error = message
HasError(i, message) ==
    /\ "error" \in DOMAIN results[i]
    /\ results[i].error = message
IsSuccess(i) == "status" \in DOMAIN results[i] /\ results[i].status = "success"

\* C1: when processInParallel has returned, results has one entry per
\* identifier and results[i] is the processor's row for the lookup of
\* identifiers[i], so results[i].cas_number = identifiers[i]; the written
\* file has the rows in that order, whatever order the lookups completed in.
C1_ResultsInInputOrder ==
    Joined =>
        /\ DOMAIN results = 0..(Len(items) - 1)
        /\ \A i \in Indices :
              /\ lookup[i] # Null
              /\ results[i] = Processor(items[i + 1], lookup[i][1])
              /\ results[i].cas_number = items[i + 1]
        /\ phase = "written" =>
              /\ output # Null
              /\ Len(output[1]) = Len(items) + 1
              /\ \A i \in Indices : output[1][i + 2][1] = items[i + 1]

\* index 1 completed before index 0: worker 1 never got past index 0 while
\* worker 2 went on from index 1 to index 2
C1_Witness ==
    /\ phase = "written"
    /\ Len(items) = 3
    /\ concurrency = 2
    /\ widx[1] = 0
    /\ widx[2] = 2
    /\ \A i \in Indices : results[i].cas_number = items[i + 1]

\* C2: the number of lookups started and not finished is at most the
\* concurrency bound, and at most min(concurrency, n).
C2_InFlight == {i \in Indices : claims[i] > stores[i]}
C2_BoundedInFlight ==
    /\ Cardinality(C2_InFlight) <= concurrency
    /\ Cardinality(C2_InFlight) <= Min(concurrency, Len(items))
    /\ Cardinality({w \in Workers : Busy(w)}) <= Min(concurrency, Len(items))

\* the pool is full, more items than workers, and one lookup already finished
C2_Witness ==
    /\ Len(items) > concurrency
    /\ Cardinality(C2_InFlight) = concurrency
    /\ concurrency = MaxConcurrency
    /\ \E i \in Indices : stores[i] = 1

\* C3: every index is claimed at most once, by one worker; when the pipeline
\* has returned every index was claimed once and its lookup ran once.
C3_ClaimedExactlyOnce ==
    /\ \A i \in Indices : claims[i] <= 1 /\ stores[i] <= claims[i]
    /\ \A v, w \in Workers : (v # w /\ Busy(v) /\ Busy(w)) => widx[v] # widx[w]
    /\ \A w \in Workers : Busy(w) => claims[widx[w]] = 1 /\ stores[widx[w]] = 0
    /\ Joined => \A i \in Indices : claims[i] = 1 /\ stores[i] = 1

\* a lookup spent its retry budget and the run ended with every index claimed once
C3_Witness ==
    /\ phase = "written"
    /\ Len(items) = 3
    /\ concurrency = 2
    /\ \E i \in Indices : HasError(i, "Max retries exceeded")
    /\ \A i \in Indices : claims[i] = 1

\* C4: a step in which a lookup ends without data stores a failed row with
\* that error at the lookup's own index and nowhere else, leaves the batch
\* running, and the worker claims the next index when one is left; the run
\* turns fatal only after the join, with a row at every index.
C4_FailureStep(w) ==
    LET i == widx[w] IN
    (Busy(w) /\ lookup[i] = Null /\ lookup'[i] # Null /\ lookup'[i][1].data = Null) =>
        /\ phase' = phase
        /\ exitCode' = exitCode
        /\ lookup'[i][1].error # Null
        /\ IsFailedRow(results'[i], items[i + 1], lookup'[i][1].error[1])
        /\ \A j \in Indices \ {i} : results'[j] = results[j] /\ lookup'[j] = lookup[j]
        /\ \A v \in Workers \ {w} : wpc'[v] = wpc[v] /\ widx'[v] = widx[v]
        /\ IF currentIndex < Len(items)
           THEN /\ wpc'[w] = "fetch"
                /\ widx'[w] = currentIndex
                /\ claims'[currentIndex] = claims[currentIndex] + 1
           ELSE wpc'[w] = "done"
C4_ErrorsStayPerIdentifier ==
    [][/\ \A w \in Workers : C4_FailureStep(w)
       /\ (phase' # phase /\ phase' \in {"written", "fatal"}) =>
              /\ \A w \in Workers : wpc[w] \in {"unborn", "done"}
              /\ \A i \in Indices : results'[i] # Hole]_vars

\* the single worker met an exhausted budget, then a network error, and still
\* produced the third row
C4_Witness ==
    /\ phase = "written"
    /\ concurrency = 1
    /\ Len(items) = 3
    /\ HasError(0, "Max retries exceeded")
    /\ HasError(1, NetworkErrorMessage)
    /\ IsSuccess(2)

\* C10: the output file is written at most once, and a write happens only
\* when no worker is suspended, the cursor is exhausted and every index holds
\* its row; a run that ends with exit code 0 wrote it exactly once.
C10_WriteAfterJoin ==
    /\ writes <= 1
    /\ (writes = 0) = (output = Null)
    /\ (phase = "written") = (writes = 1)
    /\ exitCode = 0 => writes = 1
    /\ writes = 1 =>
          /\ \A w \in Workers : ~Busy(w)
          /\ currentIndex = Len(items)
          /\ \A i \in Indices : results[i] # Hole /\ claims[i] = 1
          /\ output = Some(CsvContent(results, Len(items)))
    /\ (\E w \in Workers : Busy(w)) => writes = 0 /\ output = Null

C10_Witness ==
    /\ writes = 1
    /\ Len(items) = 3
    /\ concurrency = 2
    /\ Len(output[1]) = 4

\* ------------------------------------------- claims about one request
Requests == {"search", "props"}
Transient(status) == status \in {503, 429}
\* the fetch calls of request req in a log, and the statuses it was answered
FetchesIn(l, req) == SelectSeq(l, LAMBDA e : e[1] = req /\ e[2] = "fetch")
ResponsesIn(l, req) == SelectSeq(l, LAMBDA e : e[1] = req /\ e[2] = "response")
StatusesIn(l, req) ==
    LET r == ResponsesIn(l, req) IN [k \in 1..Len(r) |-> r[k][3]]
LookupFailedWith(i, message) ==
    /\ lookup[i] = Some([kind |-> "return", data |-> Null, error |-> Some(message)])
    /\ IsFailedRow(results[i], items[i + 1], message)
WorkerOf(i) == {w \in Workers : Busy(w) /\ widx[w] = i}

\* C5: a request is attempted at most 3 times; once its three attempts were
\* answered 503 or 429 no further attempt is made, and when the lookup ends
\* its row is failed with 'Max retries exceeded'.
C5_ThreeTransient(i, req) ==
    LET codes == StatusesIn(log[i], req) IN
    Len(codes) = 3 /\ \A k \in 1..3 : Transient(codes[k])
C5_MaxRetriesExceeded ==
    /\ \A w \in Workers : wattempts[w] <= 3
    /\ \A i \in Indices, req \in Requests :
          /\ Len(FetchesIn(log[i], req)) <= 3
          /\ C5_ThreeTransient(i, req) =>
                IF lookup[i] = Null
                THEN \E w \in WorkerOf(i) : wpc[w] = "sleep" /\ wreq[w] = req
                ELSE LookupFailedWith(i, "Max retries exceeded")

C5_Witness ==
    /\ Len(items) = 1
    /\ StatusesIn(log[0], "search") = <<503, 429, 503>>
    /\ LookupFailedWith(0, "Max retries exceeded")
    /\ phase = "written"

\* C6 as claimed: whenever both requests of an identifier end with a 2xx
\* response after at most two transient ones, the row has status 'success'.
C6_EndsWithOk(l, req) ==
    LET codes == StatusesIn(l, req) IN
    /\ Len(codes) \in 1..3
    /\ codes[Len(codes)] >= 200 /\ codes[Len(codes)] <= 299
    /\ \A k \in 1..(Len(codes) - 1) : Transient(codes[k])
C6_Original ==
    \A i \in Indices :
        (lookup[i] # Null /\ C6_EndsWithOk(log[i], "search")
                          /\ C6_EndsWithOk(log[i], "props"))
            => results[i].status = "success"

\* C6 amended: a response 503 or 429 to the first or second attempt is
\* followed by the backoff timer and then by the next attempt of the same
\* request; a 2xx response is returned to the caller, which parses it and
\* issues no further attempt; and when both requests ended with a 2xx
\* response whose body parsed and the properties body carried a record, the
\* row has status 'success'.
C6_Returned(i, k) ==
    LET l == log[i] IN
    IF k = Len(l)
    THEN \E w \in WorkerOf(i) : wpc[w] = "json" /\ wreq[w] = l[k][1]
    ELSE l[k + 1][1] = l[k][1] /\ l[k + 1][2] \in {"parsed", "unparsed"}
C6_Retried(i, k) ==
    LET l == log[i] IN
    /\ k > 1 /\ l[k - 1][2] = "fetch" /\ l[k - 1][1] = l[k][1]
    /\ l[k - 1][3] < 2 =>
          /\ Len(l) > k /\ l[k + 1][2] = "sleep" /\ l[k + 1][1] = l[k][1]
          /\ IF Len(l) = k + 1
             THEN \E w \in WorkerOf(i) : wpc[w] = "sleep"
             ELSE l[k + 2] = <<l[k][1], "fetch", l[k - 1][3] + 1>>
C6_OkAfterTransientSucceeds ==
    \A i \in Indices :
        /\ \A k \in 1..Len(log[i]) :
              LET e == log[i][k] IN
              /\ (e[2] = "response" /\ e[3] >= 200 /\ e[3] <= 299) => C6_Returned(i, k)
              /\ (e[2] = "response" /\ Transient(e[3])) => C6_Retried(i, k)
        /\ (/\ lookup[i] # Null
            /\ C6_EndsWithOk(log[i], "search")
            /\ C6_EndsWithOk(log[i], "props")
            /\ log[i][Len(log[i])] = <<"props", "parsed", 1>>)
              => /\ results[i].status = "success"
                 /\ "error" \notin DOMAIN results[i]
                 /\ results[i].cas_number = items[i + 1]

\* two 429 then a 200 on each request, and a success row
C6_Witness ==
    /\ Len(items) = 1
    /\ StatusesIn(log[0], "search") = <<429, 429, 200>>
    /\ StatusesIn(log[0], "props") = <<429, 429, 200>>
    /\ IsSuccess(0)
    /\ phase = "written"

\* C7: a 404 response is the last event of its lookup, on whichever attempt
\* it arrives: no timer is set and no attempt follows, and the lookup has
\* failed with 'Compound not found in PubChem'.
C7_NotFoundEndsRequest ==
    \A i \in Indices :
        \A k \in 1..Len(log[i]) :
            (log[i][k][2] = "response" /\ log[i][k][3] = 404) =>
                /\ k = Len(log[i])
                /\ WorkerOf(i) = {}
                /\ LookupFailedWith(i, "Compound not found in PubChem")

\* a 404 on the second attempt of the properties request
C7_Witness ==
    /\ Len(items) = 1
    /\ StatusesIn(log[0], "props") = <<503, 404>>
    /\ log[0][Len(log[0])] = <<"props", "response", 404>>
    /\ LookupFailedWith(0, "Compound not found in PubChem")

\* C8: an attempt after the first one directly follows the timer set for a
\* 503 or 429 response to the previous attempt of the same request; a
\* response that is neither 2xx, 503, 429 nor 404 is the last event of its
\* lookup, which has failed with a message carrying the status code.
C8_StatusMessage(status) ==
    CASE status = 500 -> "HTTP 500: Internal Server Error"
      [] OTHER -> "HTTP"
C8_RetryOnlyWhenRateLimited ==
    \A i \in Indices :
        \A k \in 1..Len(log[i]) :
            LET e == log[i][k] IN
            /\ (e[2] = "fetch" /\ e[3] > 0) =>
                  /\ k > 3
                  /\ log[i][k - 1][1] = e[1] /\ log[i][k - 1][2] = "sleep"
                  /\ log[i][k - 2][1] = e[1] /\ log[i][k - 2][2] = "response"
                  /\ Transient(log[i][k - 2][3])
                  /\ log[i][k - 3] = <<e[1], "fetch", e[3] - 1>>
            /\ e[2] = "sleep" =>
                  /\ k > 1
                  /\ log[i][k - 1][2] = "response" /\ Transient(log[i][k - 1][3])
            /\ (/\ e[2] = "response"
                /\ ~(e[3] >= 200 /\ e[3] <= 299)
                /\ ~Transient(e[3])
                /\ e[3] # 404) =>
                  /\ k = Len(log[i])
                  /\ WorkerOf(i) = {}
                  /\ LookupFailedWith(i, C8_StatusMessage(e[3]))

\* a 500 on the second attempt of the search request, after one retry
C8_Witness ==
    /\ Len(items) = 1
    /\ StatusesIn(log[0], "search") = <<429, 500>>
    /\ Len(FetchesIn(log[0], "search")) = 2
    /\ LookupFailedWith(0, "HTTP 500: Internal Server Error")

\* C9: a stored row is either a success row without an error field or a
\* failed row with a non-empty error and empty name, structure notation,
\* formula and image reference; getCompoundByCas settles with exactly one of
\* data and error; the written file shows the same two shapes.
C9_SuccessRow(row) ==
    /\ DOMAIN row = {"cas_number", "chemical_name", "smiles_code",
                     "molecular_formula", "structure_image_url", "status"}
    /\ row.status = "success"
C9_FailedRow(row) ==
    /\ DOMAIN row = {"cas_number", "chemical_name", "smiles_code",
                     "molecular_formula", "structure_image_url", "status", "error"}
    /\ row.status = "failed"
    /\ row.error # ""
    /\ row.chemical_name = "" /\ row.smiles_code = ""
    /\ row.molecular_formula = "" /\ row.structure_image_url = ""
C9_Line(line) ==
    \/ line[6] = "success" /\ line[7] = ""
    \/ /\ line[6] = "failed" /\ line[7] # ""
       /\ line[2] = "" /\ line[3] = "" /\ line[4] = "" /\ line[5] = ""
C9_TwoShapes ==
    /\ \A i \in Indices :
          /\ results[i] # Hole =>
                /\ C9_SuccessRow(results[i]) \/ C9_FailedRow(results[i])
                /\ lookup[i] # Null
                /\ C9_SuccessRow(results[i]) = (lookup[i][1].data # Null)
          /\ lookup[i] # Null =>
                /\ lookup[i][1].kind = "return"
                /\ (lookup[i][1].data = Null) # (lookup[i][1].error = Null)
                /\ lookup[i][1].error # Some("")
    /\ output # Null =>
          \A l \in 2..Len(output[1]) : Len(output[1][l]) = 7 /\ C9_Line(output[1][l])

\* a success row whose name is empty next to a failed row, both written
C9_Witness ==
    /\ phase = "written"
    /\ Len(items) = 3
    /\ IsSuccess(0) /\ results[0].chemical_name = ""
    /\ HasError(1, "Could not retrieve compound properties")
    /\ IsSuccess(2) /\ results[2].chemical_name = "Formaldehyde"

\* C15: the timer set after a 503 or 429 answer to the k-th attempt of a
\* request is k x 1000 ms (also after the third attempt), every such answer
\* sets one, and no timer is set after anything else.
C15_BackoffDelays ==
    /\ \A w \in Workers :
          IF wpc[w] = "sleep"
          THEN wtimer[w] = wattempts[w] * 1000
          ELSE wtimer[w] = 0
    /\ \A i \in Indices :
          \A k \in 1..Len(log[i]) :
              LET e == log[i][k] IN
              /\ e[2] = "sleep" =>
                    /\ k > 2
                    /\ log[i][k - 1][1] = e[1]
                    /\ log[i][k - 1][2] = "response"
                    /\ Transient(log[i][k - 1][3])
                    /\ log[i][k - 2][1] = e[1]
                    /\ log[i][k - 2][2] = "fetch"
                    /\ e[3] = (log[i][k - 2][3] + 1) * 1000
              /\ (e[2] = "response" /\ Transient(e[3])) =>
                    /\ Len(log[i]) > k
                    /\ log[i][k + 1][1] = e[1]
                    /\ log[i][k + 1][2] = "sleep"
              /\ (e[2] = "response" /\ ~Transient(e[3])) =>
                    (Len(log[i]) = k \/ log[i][k + 1][2] # "sleep")

\* 1 s, 2 s and 3 s after the three attempts of one request
C15_Witness ==
    /\ Len(items) = 1
    /\ SelectSeq(log[0], LAMBDA e : e[2] = "sleep")
          = << <<"props", "sleep", 1000>>, <<"props", "sleep", 2000>>,
               <<"props", "sleep", 3000>> >>
    /\ lookup[0] # Null

\* C16: each request has its own budget: at most 3 attempts per request and
\* 6 per identifier; the properties request starts at attempt index 0
\* whatever the search request used, and a 503 or 429 answer to its first or
\* second attempt is followed by a further attempt.
C16_PropsRetried(i, k) ==
    LET l == log[i] IN
    (/\ l[k][1] = "props" /\ l[k][2] = "sleep" /\ l[k][3] < 3000
     /\ Len(l) > k) => l[k + 1][1] = "props" /\ l[k + 1][2] = "fetch"
C16_BudgetPerRequest ==
    \A i \in Indices :
        LET props == FetchesIn(log[i], "props")
            search == FetchesIn(log[i], "search")
        IN
        /\ Len(search) <= 3 /\ Len(props) <= 3
        /\ Len(search) + Len(props) <= 6
        /\ \A k \in 1..Len(props) : props[k][3] = k - 1
        /\ \A k \in 1..Len(search) : search[k][3] = k - 1
        /\ \A k \in 1..Len(log[i]) : C16_PropsRetried(i, k)
        /\ \A w \in WorkerOf(i) :
              wattempts[w] = Len(FetchesIn(log[i], wreq[w]))

\* six attempts: the search succeeded on its third, and the properties
\* request still succeeded after two transient answers
C16_Witness ==
    /\ Len(items) = 1
    /\ StatusesIn(log[0], "search") = <<503, 429, 200>>
    /\ StatusesIn(log[0], "props") = <<429, 503, 200>>
    /\ Len(FetchesIn(log[0], "search")) + Len(FetchesIn(log[0], "props")) = 6
    /\ IsSuccess(0)

\* C17: a parsed search body without a numeric ID ends the lookup as failed
\* with 'No compound found for this CAS number'; a parsed properties body
\* without a record ends it as failed with 'Could not retrieve compound
\* properties'.
C17_Fails(i, message) ==
    /\ lookup'[i] = Some([kind |-> "return", data |-> Null, error |-> Some(message)])
    /\ IsFailedRow(results'[i], items[i + 1], message)
C17_MissingBodyMessages ==
    [][\A w \in Workers :
          /\ SearchParsed(w, Null) =>
                C17_Fails(widx[w], "No compound found for this CAS number")
          /\ PropsParsed(w, Null) =>
                C17_Fails(widx[w], "Could not retrieve compound properties")]_vars

C17_Witness ==
    /\ phase = "written"
    /\ Len(items) = 2
    /\ HasError(0, "No compound found for this CAS number")
    /\ HasError(1, "Could not retrieve compound properties")

\* C18: in the log of a lookup every search event precedes every properties
\* event, and the first properties attempt directly follows the parse of a
\* 2xx search response that carried a non-zero ID; a lookup whose search
\* failed or carried no ID has no properties event.
C18_Sequential ==
    \A i \in Indices :
        LET l == log[i] IN
        /\ \A k \in 2..Len(l) : l[k - 1][1] = "props" => l[k][1] = "props"
        /\ \A k \in 1..Len(l) :
              (l[k][1] = "props" /\ (k = 1 \/ l[k - 1][1] = "search")) =>
                  /\ k > 3
                  /\ l[k] = <<"props", "fetch", 0>>
                  /\ l[k - 1][1] = "search" /\ l[k - 1][2] = "parsed"
                  /\ l[k - 1][3] # 0
                  /\ l[k - 2][1] = "search" /\ l[k - 2][2] = "response"
                  /\ l[k - 2][3] >= 200 /\ l[k - 2][3] <= 299
        /\ (\E k \in 1..Len(l) :
                \/ l[k] = <<"search", "parsed", 0>>
                \/ l[k] = <<"search", "unparsed", 0>>
                \/ l[k] = <<"search", "reject", 0>>
                \/ (l[k][1] = "search" /\ l[k][2] = "response"
                    /\ l[k][3] \in {404, 500}))
              => \A k \in 1..Len(l) : l[k][1] = "search"
        /\ \A w \in WorkerOf(i) :
              wreq[w] = (IF \E k \in 1..Len(l) : l[k][1] = "props"
                         THEN "props" ELSE "search")

\* the properties request was issued right after the search body gave 712
C18_Witness ==
    /\ Len(items) = 1
    /\ Len(log[0]) >= 4
    /\ SubSeq(log[0], 1, 4) = << <<"search", "fetch", 0>>, <<"search", "response", 200>>,
                                 <<"search", "parsed", 712>>, <<"props", "fetch", 0>> >>
    /\ \E w \in WorkerOf(0) : wreq[w] = "props" /\ wpc[w] = "fetch"

\* C20: the cursor starts at 0, changes only by +1 and only together with
\* one claim of the index it held, which is below n; so 0 <= cursor <= n and
\* no worker holds an index >= n.
C20_Step ==
    /\ currentIndex' \in {currentIndex, currentIndex + 1}
    /\ currentIndex' >= 0 /\ currentIndex' <= Len(items)
    /\ \A w \in Workers : Busy(w)' => widx'[w] \in 0..(Len(items) - 1)
    /\ IF currentIndex' = currentIndex + 1
       THEN /\ currentIndex < Len(items)
            /\ claims' = [claims EXCEPT ![currentIndex] = @ + 1]
            /\ \E w \in Workers :
                  /\ wpc'[w] = "fetch" /\ widx'[w] = currentIndex
            /\ lookup'[currentIndex] = Null
       ELSE claims' = claims
C20_CursorMonotone ==
    [][C20_Step]_vars

\* two workers came back to the loop test after index 2, the last one, was
\* claimed, and both stopped without claiming
C20_Witness ==
    /\ Len(items) = 3
    /\ concurrency = 2
    /\ currentIndex = 3
    /\ wpc[1] = "done" /\ wpc[2] = "done"
    /\ \A i \in Indices : claims[i] = 1

\* C19: when every pending await settles, every worker eventually stops and
\* every index eventually holds a result, for every list including the empty
\* one; the output is then written, or the write throws and the run ends
\* with exit code 1.  Conversely a worker leaves `await fetch(url)` only
\* when the request is answered, and while a worker is suspended the output
\* is not written.
C19_Stopped ==
    /\ \A w \in ActiveWorkers : wpc[w] = "done"
    /\ \A w \in Workers \ ActiveWorkers : wpc[w] = "unborn"
    /\ \A i \in Indices : results[i] # Hole /\ lookup[i] # Null
C19_LeavesFetch(w) ==
    (wpc[w] = "fetch" /\ (wpc'[w] # "fetch" \/ wattempts'[w] # wattempts[w]
                          \/ wreq'[w] # wreq[w] \/ widx'[w] # widx[w]))
        => Answered(w)
C19_Terminates ==
    /\ <>(/\ C19_Stopped
          /\ \/ phase = "written" /\ output # Null /\ exitCode = 0
             \/ phase = "fatal" /\ output = Null /\ exitCode = 1)
    /\ []((\E w \in Workers : Busy(w)) => output = Null)
    /\ [][\A w \in Workers : C19_LeavesFetch(w)]_vars

\* C19 as stated: the output is eventually written
C19_Original ==
    <>(C19_Stopped /\ phase = "written" /\ output # Null)

\* the empty list: no worker started, no request issued, the header written
C19_Witness ==
    /\ Len(items) = 0
    /\ spawned = 0
    /\ \A w \in Workers : wpc[w] = "unborn"
    /\ phase = "written"
    /\ output # Null

\* fetchWithRetry, getCompoundByCas and the processor run one after the
\* other against the answers `up`, from loop variable i
RECURSIVE fetchWithRetry(_, _)
fetchWithRetry(answer, i) ==
    IF answer.status = 0
    THEN [kind |-> "throw", message |-> NetworkErrorMessage]
    ELSE LET step == FetchStep(i, answer.status) IN
         CASE step.kind = "return" -> [kind |-> "return", message |-> ""]
           [] step.kind = "sleep" ->
                IF LoopContinues(i)
                THEN fetchWithRetry(answer, i + 1)
                ELSE [kind |-> "throw", message |-> "Max retries exceeded"]
           [] OTHER -> [kind |-> "throw", message |-> step.message]
getCompoundByCas(casNumber, up) ==
    LET searchAnswer == up.search[casNumber]
        searchResponse == fetchWithRetry(searchAnswer, 0)
    IN
    IF searchResponse.kind = "throw" THEN CatchError(searchResponse.message)
    ELSE IF searchAnswer.body = Null THEN CatchError(JsonErrorMessage)
    ELSE IF CidMissing(searchAnswer.body[1]) THEN NoCompound
    ELSE LET cid == searchAnswer.body[1][1]
             propsAnswer == up.props[cid]
             propsResponse == fetchWithRetry(propsAnswer, 0)
         IN
         IF propsResponse.kind = "throw" THEN CatchError(propsResponse.message)
         ELSE IF propsAnswer.body = Null THEN CatchError(JsonErrorMessage)
         ELSE IF propsAnswer.body[1] = Null THEN NoProperties
         ELSE Found(propsAnswer.body[1][1], cid)
SequentialRows(list, up) ==
    [i \in 0..(Len(list) - 1) |-> Processor(list[i + 1], getCompoundByCas(list[i + 1], up))]

\* C11: against an upstream that answers each request as a fixed function of
\* the request, the rows and the file depend on the list and on that
\* function only: whatever the interleaving, every stored row is the row a
\* one-at-a-time run gives for its identifier, and the file written is the
\* file of those rows in list order.
C11_Deterministic ==
    upstream # Null =>
        /\ \A i \in Indices :
              results[i] \in {Hole, SequentialRows(items, upstream[1])[i]}
        /\ Joined => results = SequentialRows(items, upstream[1])
        /\ output # Null =>
              output = Some(CsvContent(SequentialRows(items, upstream[1]), N))

\* two workers, the first identifier answered 503 three times and the second
\* found: both rows are in the file
C11_Witness ==
    /\ upstream # Null
    /\ Len(items) = 2
    /\ concurrency = 2
    /\ phase = "written"
    /\ upstream[1].search[items[1]] = Answer(503, Null)
    /\ HasError(0, "Max retries exceeded")
    /\ IsSuccess(1)

\* C12: when the output path is omitted, it is the input path with a
\* trailing ".csv" (any letter case) replaced by "_results.csv", or, when
\* the input path has no such suffix, the input path with "_results.csv"
\* appended; so it is never the input path itself.
C12_HasCsvSuffix(p) ==
    /\ Len(p) >= 4
    /\ \E c \in {"c", "C"}, s \in {"s", "S"}, v \in {"v", "V"} :
          SubSeq(p, Len(p) - 3, Len(p)) = <<".", c, s, v>>
C12_OutputOmitted == phase = "resolved" /\ Len(args) = 1
C12_DerivedOutputPath ==
    C12_OutputOmitted =>
        /\ outputPath =
              (IF C12_HasCsvSuffix(inputPath)
               THEN SubSeq(inputPath, 1, Len(inputPath) - 4) \o ResultsSuffix
               ELSE inputPath \o ResultsSuffix)
        /\ outputPath # inputPath

\* `npm run dev a.txt`: the results are written over the input file
C12_Witness ==
    /\ C12_OutputOmitted
    /\ args = << <<"a", ".", "t", "x", "t">> >>
    /\ inputPath = <<"/", "w", "/", "a", ".", "t", "x", "t">>
    /\ outputPath = inputPath

\* C13: the exit code is 1 exactly when no input path was given, the input
\* file does not exist, or a fatal local error occurred (the input cannot be
\* read or parsed, the output cannot be written); every other run that ends
\* exits 0, also when every identifier ended 'failed'.
C13_ExitCodes ==
    /\ exitCode \in {-1, 0, 1}
    /\ exitCode = 1 <=> phase \in {"usage", "notfound", "fatal"}
    /\ exitCode = 0 <=> phase = "written"
    /\ phase = "usage" => Len(args) = 0
    /\ phase = "notfound" => Len(args) >= 1 /\ inputFile = Null
    /\ phase = "fatal" =>
          /\ Len(args) >= 1 /\ inputFile # Null
          /\ \/ inputFile[1].malformed
             \/ /\ \A w \in ActiveWorkers : wpc[w] = "done"
                /\ \A i \in Indices : results[i] # Hole
                /\ output = Null
    /\ Len(args) = 0 => phase \in {"start", "usage"}
    /\ (Len(args) >= 1 /\ inputFile = Null) =>
          phase \in {"start", "resolved", "notfound"}
    /\ (Len(args) >= 1 /\ inputFile # Null /\ inputFile[1].malformed) =>
          phase \in {"start", "resolved", "fatal"}
    /\ phase = "written" =>
          /\ Len(args) >= 1 /\ inputFile # Null /\ ~inputFile[1].malformed
          /\ output # Null

\* exit code 0 with two identifiers, both failed
C13_Witness ==
    /\ phase = "written"
    /\ exitCode = 0
    /\ Len(items) = 2
    /\ \A i \in Indices : results[i].status = "failed"

\* C14: each row gives the first non-empty trimmed cell among the columns
\* cas_number, CAS, cas, 'CAS Number' in this order; a row with none gives
\* nothing, and the identifiers are in the order of their rows; there is one
\* result slot per identifier.
C14_Cell(file, r, col) ==
    IF col \in file.header THEN Trim(file.rows[r][col]) ELSE ""
C14_Pick(file, r) ==
    IF C14_Cell(file, r, "cas_number") # "" THEN C14_Cell(file, r, "cas_number")
    ELSE IF C14_Cell(file, r, "CAS") # "" THEN C14_Cell(file, r, "CAS")
    ELSE IF C14_Cell(file, r, "cas") # "" THEN C14_Cell(file, r, "cas")
    ELSE C14_Cell(file, r, "CAS Number")
C14_ColumnResolution ==
    phase = "spawning" =>
        LET file == inputFile[1]
            kept == {r \in 1..Len(file.rows) : C14_Pick(file, r) # ""}
            Rank(r) == Cardinality({q \in kept : q <= r})
        IN
        /\ Len(items) = Cardinality(kept)
        /\ \A r \in kept : items[Rank(r)] = C14_Pick(file, r)
        /\ DOMAIN results = 0..(Len(items) - 1)

\* a file with only a 'CAS Number' column next to the name: the first row
\* has a blank cell and is skipped, the second gives the identifier
C14_Witness ==
    /\ phase = "spawning"
    /\ inputFile[1].header = {"name", "CAS Number"}
    /\ Len(inputFile[1].rows) = 2
    /\ inputFile[1].rows[1]["CAS Number"] = " "
    /\ inputFile[1].rows[2]["CAS Number"] = "50-00-0"
    /\ items = <<"50-00-0">>

====
